---- MODULE Spec2Model ----
(***************************************************************************)
(* A model of sage.monoids.automatic_monoid.AutomaticMonoid: the lazily    *)
(* enumerated monoid generated by a family of elements of an ambient       *)
(* monoid, with its breadth-first iterator, the memoized retraction and    *)
(* the operations built on them.                                           *)
(***************************************************************************)
EXTENDS Integers, Sequences, FiniteSets, TLC

(***************************************************************************)
(* Bounds of the model.                                                    *)
(***************************************************************************)
MaxCursors == 1
MaxWordLen == 2
MaxN == 3
MaxUnlisted == 1

(***************************************************************************)
(* The ambient monoids.  Two of the ambients of the class docstring:       *)
(* IntegerModRing(12) with operator.mul, and set maps of a three point set *)
(* acting on the right (FiniteSetMaps(W, action="right")), which is not    *)
(* commutative; and IntegerModRing(12) with mul=operator.add and           *)
(* one=R.zero().  An ambient value is an integer or a triple.              *)
(***************************************************************************)
Modulus == 12

Ambients == {"IntegerModRing", "FiniteSetMaps"}

\* IntegerModRing(12) with each of the two operations, for the family of the
\* class docstring
ScenarioAmbients == {"IntegerModRing", "IntegerModRingAdd"}

ScenarioFamily == <<3, 5>>

AmbientOne(amb) ==
    IF amb = "IntegerModRing" THEN 1
    ELSE IF amb = "IntegerModRingAdd" THEN 0
    ELSE <<1, 2, 3>>

\* operator.add where the code takes mul
AmbientMulAdditive(amb, a, b) == (a + b) % Modulus

AmbientMul(amb, a, b) ==
    IF amb = "IntegerModRing" THEN (a * b) % Modulus
    ELSE IF amb = "IntegerModRingAdd" THEN (a + b) % Modulus
    ELSE <<b[a[1]], b[a[2]], b[a[3]]>>

\* The families of generators the monoid is constructed from, with the keys
\* 1, 2, ... in the order of the family: the family of the class docstring
\* (3 and 5 modulo 12), families with one, two and three generators, the
\* empty family, and families in which a generator is the identity or two
\* generators are equal.
Families(amb) ==
    IF amb = "IntegerModRing"
    THEN {<<>>, <<1>>, <<2>>, <<3, 5>>, <<2, 3>>, <<3, 2>>, <<2, 1>>, <<3, 3>>,
          <<3, 5, 7>>}
    ELSE {<<<<2, 1, 3>>, <<1, 1, 3>>>>, <<<<1, 1, 3>>, <<2, 1, 3>>>>,
          <<<<1, 2, 3>>, <<1, 1, 3>>>>, <<<<1, 1, 3>>, <<1, 1, 3>>>>}

\* the ambient values a caller retracts directly
RetractChoices(amb) ==
    IF amb \in {"IntegerModRing", "IntegerModRingAdd"} THEN {4}
    ELSE {<<2, 2, 3>>}

\* None, the value of a reduced word that is not yet known
None == <<-1>>

VARIABLES
    ambient,                \* the ambient monoid mul and one are taken from
    generators_in_ambient,  \* the family of generators: key k |-> ambient value
    generators,             \* the family of their retractions: key k |-> element
    _one,                   \* the retraction of one
    retract_cache,          \* the cache of retract: ambient value |-> element
    _reduced_word,          \* element |-> reduced word or None, for every element made
    elements,               \* the discovery list
    elements_set,           \* the elements of the discovery list
    done,                   \* the frontier pointer
    its,                    \* the caller's iterators: the position of the code of each
    ret                     \* the last call that returned, and what it returned

store_vars == <<retract_cache, _reduced_word, elements, elements_set, done>>
static_vars == <<ambient, generators_in_ambient, generators, _one>>
vars == <<static_vars, store_vars, its, ret>>

keys == 1..Len(generators_in_ambient)

mul(a, b) == AmbientMul(ambient, a, b)

(***************************************************************************)
(* The store as a value, for the operators that change it.                 *)
(***************************************************************************)
Store ==
    [retract_cache |-> retract_cache, _reduced_word |-> _reduced_word,
     elements |-> elements, elements_set |-> elements_set, done |-> done]

SetStore(S) ==
    /\ retract_cache' = S.retract_cache
    /\ _reduced_word' = S._reduced_word
    /\ elements' = S.elements
    /\ elements_set' = S.elements_set
    /\ done' = S.done

\* Element.__init__: a new object wrapping v, its reduced word None.  An
\* object is named by its value and the number of objects of that value made
\* before it, so that "x is y" is equality of names.
Element(S, v) ==
    [value |-> v,
     id |-> Cardinality({o \in DOMAIN S._reduced_word : o.value = v})]

\* Cached with the new element appended to the discovery list as well
CachedListed(S, v, e) ==
    [S |-> [S EXCEPT !.retract_cache = @ @@ (v :> e),
                     !._reduced_word = @ @@ (e :> None),
                     !.elements = Append(@, e),
                     !.elements_set = @ \cup {e}],
     e |-> e]

\* the store with the new element e in the cache of retract
Cached(S, v, e) ==
    [S |-> [S EXCEPT !.retract_cache = @ @@ (v :> e),
                     !._reduced_word = @ @@ (e :> None)],
     e |-> e]

\* retract without its cache: a new element at every call
retractUncached(S, v) == Cached(S, v, Element(S, v))

\* AutomaticMonoid.retract, a cached_method: the element made for v the first
\* time, the same element afterwards.  Returns the store and the element.
retract(S, v) ==
    IF v \in DOMAIN S.retract_cache
    THEN [S |-> S, e |-> S.retract_cache[v]]
    ELSE Cached(S, v, Element(S, v))

\* Element.lift
lift(x) == x.value

\* transition multiplying by the generator on the left
transitionLeft(S, x, i) == retract(S, mul(generators_in_ambient[i], lift(x)))

\* Element.transition: self * generators[i], retracted
transition(S, x, i) == retract(S, mul(lift(x), generators_in_ambient[i]))

\* y in self.elements_set: a Python set, which compares elements by value
InElementsSet(S, y) == \E z \in S.elements_set : z.value = y.value

\* "for i in l: x = x.transition(i)"
RECURSIVE Replay(_, _, _)
ReplayRest(r, l) == Replay(r.S, r.e, l)

Replay(S, x, l) ==
    IF l = <<>> THEN [S |-> S, e |-> x]
    ELSE ReplayRest(transition(S, x, Head(l)), Tail(l))

\* from_reduced_word saving l as the reduced word of the element it returns
from_reduced_wordSaved(S, l) ==
    [S |-> [Replay(S, _one, l).S EXCEPT !._reduced_word[Replay(S, _one, l).e] = l],
     e |-> Replay(S, _one, l).e]

\* AutomaticMonoid.from_reduced_word
from_reduced_word(S, l) == Replay(S, _one, l)

(***************************************************************************)
(* Construction.                                                           *)
(***************************************************************************)
EmptyStore ==
    [retract_cache |-> <<>>, _reduced_word |-> <<>>, elements |-> <<>>,
     elements_set |-> {}, done |-> 0]

\* generators.map(self.retract): the elements of g[1..n], made in family order
RECURSIVE MapRetract(_, _)
MapRetract(S, g) ==
    IF g = <<>> THEN [S |-> S, es |-> <<>>]
    ELSE LET r == retract(S, Head(g))
             rest == MapRetract(r.S, Tail(g))
         IN  [S |-> rest.S, es |-> <<r.e>> \o rest.es]

\* self.generators.inverse_family(): element |-> a key of it in the family of
\* the retracted generators; which key, when two generators are one element,
\* is left open
InverseFamilies(gs) ==
    {f \in [{gs[k] : k \in 1..Len(gs)} -> 1..Len(gs)] :
        \A e \in DOMAIN f : gs[f[e]] = e}

InitOf(amb, g) ==
        LET r1 == MapRetract(EmptyStore, <<AmbientOne(amb)>>)
            o  == r1.es[1]
            r2 == MapRetract(r1.S, g)
            gs == r2.es
        IN  \E inv \in InverseFamilies(gs) :
            /\ ambient = amb
            /\ generators_in_ambient = g
            /\ generators = gs
            /\ _one = o
            /\ retract_cache = r2.S.retract_cache
            /\ elements = <<o>> \o gs
            /\ elements_set = {o} \cup {gs[k] : k \in 1..Len(gs)}
               \* self.one()._reduced_word = [], and then every generator's
            /\ _reduced_word =
                  [e \in DOMAIN r2.S._reduced_word |->
                      IF e \in DOMAIN inv THEN <<inv[e]>> ELSE <<>>]
            /\ done = 0
            /\ its = [c \in 1..MaxCursors |-> [pc |-> "none", k |-> 0, x |-> o, i |-> 0,
                                              out |-> <<>>]]
            /\ ret = [op |-> "none", a |-> o, b |-> o, l |-> <<>>, n |-> 0, res |-> o,
                      exc |-> ""]

Init == \E amb \in Ambients : \E g \in Families(amb) : InitOf(amb, g)

\* AutomaticMonoid(Family({1: R(3), 2: R(5)}), one=R.one()) and
\* AutomaticMonoid(Family({1: R(3), 2: R(5)}), one=R.zero(), mul=operator.add)
InitScenario == \E amb \in ScenarioAmbients : InitOf(amb, ScenarioFamily)

(***************************************************************************)
(* The iterator __iter__ returns: a generator, whose code runs from one    *)
(* yield to the next when it is pulled.  pc is the place of its code:      *)
(* "list" in "for x in self.elements", "while" at the test of the while    *)
(* loop, "for" in "for i in self.generators.keys()", "stopped" after the   *)
(* return.  k counts the elements the first loop has yielded, x and i are  *)
(* the locals of the second; out is what the caller has got from it: the   *)
(* elements its pulls have returned, in their order.                       *)
(***************************************************************************)
NoIt == [pc |-> "none", k |-> 0, x |-> _one, i |-> 0, out |-> <<>>]

\* self.__iter__(): the generator before its first pull
NewIt == [pc |-> "list", k |-> 0, x |-> _one, i |-> 0, out |-> <<>>]

Live == {"list", "while", "for"}

\* ForBody with a new element yielded but left out of the discovery list
ForBodyUnlisted(r, c) ==
    [S |-> r.S, c |-> [c EXCEPT !.i = @ + 1],
     ev |-> IF InElementsSet(r.S, r.e) THEN "run" ELSE "yield", y |-> r.e]

\* ForBody giving the word of x followed by i to y also when y is skipped
ForBodyReword(r, c) ==
    IF InElementsSet(r.S, r.e)
    THEN [S |-> [r.S EXCEPT !._reduced_word[r.e] = r.S._reduced_word[c.x] \o <<c.i>>],
          c |-> [c EXCEPT !.i = @ + 1], ev |-> "run", y |-> r.e]
    ELSE [S |-> [r.S EXCEPT
                    !.elements = Append(@, r.e),
                    !.elements_set = @ \cup {r.e},
                    !._reduced_word[r.e] = r.S._reduced_word[c.x] \o <<c.i>>],
          c |-> [c EXCEPT !.i = @ + 1], ev |-> "yield", y |-> r.e]

\* The body of "for i in self.generators.keys()" for the key c.i, r being
\* what x.transition(i) returned: y is skipped if it is in elements_set, and
\* else appended, given the word of x followed by i, and yielded.
ForBody(r, c) ==
    IF InElementsSet(r.S, r.e)
    THEN [S |-> r.S, c |-> [c EXCEPT !.i = @ + 1], ev |-> "run", y |-> r.e]
    ELSE [S |-> [r.S EXCEPT
                    !.elements = Append(@, r.e),
                    !.elements_set = @ \cup {r.e},
                    !._reduced_word[r.e] = r.S._reduced_word[c.x] \o <<c.i>>],
          c |-> [c EXCEPT !.i = @ + 1], ev |-> "yield", y |-> r.e]

\* IterStep with done advanced when the loop over the keys is entered, not
\* when it is left
IterStepEarly(S, c) ==
    CASE c.pc = "list" ->
            IF c.k < Len(S.elements)
            THEN [S |-> S, c |-> [c EXCEPT !.k = @ + 1], ev |-> "yield",
                  y |-> S.elements[c.k + 1]]
            ELSE [S |-> S, c |-> [c EXCEPT !.pc = "while"], ev |-> "run", y |-> c.x]
      [] c.pc = "while" ->
            IF S.done < Len(S.elements)
            THEN [S |-> [S EXCEPT !.done = @ + 1],
                  c |-> [c EXCEPT !.pc = "for", !.x = S.elements[S.done + 1], !.i = 1],
                  ev |-> "run", y |-> c.x]
            ELSE [S |-> S, c |-> [c EXCEPT !.pc = "stopped"], ev |-> "stop", y |-> c.x]
      [] c.pc = "for" ->
            IF c.i > Len(generators_in_ambient)
            THEN [S |-> S, c |-> [c EXCEPT !.pc = "while"], ev |-> "run", y |-> c.x]
            ELSE ForBody(transition(S, c.x, c.i), c)
      [] OTHER -> [S |-> S, c |-> c, ev |-> "stop", y |-> c.x]

\* One step of the code of __iter__ in the iterator c: ev is "yield" with the
\* element y, "stop" at the return, "run" in between.
IterStep(S, c) ==
    CASE c.pc = "list" ->
            IF c.k < Len(S.elements)
            THEN [S |-> S, c |-> [c EXCEPT !.k = @ + 1], ev |-> "yield",
                  y |-> S.elements[c.k + 1]]
            ELSE [S |-> S, c |-> [c EXCEPT !.pc = "while"], ev |-> "run", y |-> c.x]
      [] c.pc = "while" ->
            IF S.done < Len(S.elements)
            THEN [S |-> S,
                  c |-> [c EXCEPT !.pc = "for", !.x = S.elements[S.done + 1], !.i = 1],
                  ev |-> "run", y |-> c.x]
            ELSE [S |-> S, c |-> [c EXCEPT !.pc = "stopped"], ev |-> "stop", y |-> c.x]
      [] c.pc = "for" ->
            IF c.i > Len(generators_in_ambient)
            THEN [S |-> [S EXCEPT !.done = @ + 1], c |-> [c EXCEPT !.pc = "while"],
                  ev |-> "run", y |-> c.x]
            ELSE ForBody(transition(S, c.x, c.i), c)
      [] OTHER -> [S |-> S, c |-> c, ev |-> "stop", y |-> c.x]

\* it.next(): the code of the iterator c runs to its next yield (ev = "yield",
\* the element y) or to its return (ev = "stop", StopIteration).
RECURSIVE next(_, _)
UntilYield(r) == IF r.ev = "run" THEN next(r.S, r.c) ELSE r

next(S, c) == CHOOSE r \in {UntilYield(s) : s \in {IterStep(S, c)}} : TRUE

\* "for x in self": the iterator c pulled until it stops; the store it leaves
RECURSIVE Exhaust(_, _)
Exhausted(r) == IF r.ev = "stop" THEN r.S ELSE Exhaust(r.S, r.c)

Exhaust(S, c) == Exhausted(next(S, c))

(***************************************************************************)
(* The methods that pull an iterator of their own.  Each returns the store *)
(* it leaves, its result res, and in exc the exception it raises if any.    *)
(***************************************************************************)
\* Searched going on to the end of the enumeration when it has found x
SearchedOn(r, x) ==
    IF r.ev = "stop" THEN [S |-> r.S, res |-> None, exc |-> "ValueError"]
    ELSE IF r.y = x
    THEN [S |-> Exhaust(r.S, r.c), res |-> r.S._reduced_word[x], exc |-> ""]
    ELSE [S |-> Exhaust(r.S, r.c), res |-> Exhaust(r.S, r.c)._reduced_word[x],
          exc |-> IF Exhaust(r.S, r.c)._reduced_word[x] = None THEN "ValueError" ELSE ""]

\* Searched giving up at the first element that is not x
SearchedFirst(r, x) ==
    IF r.ev = "stop" \/ r.y # x THEN [S |-> r.S, res |-> None, exc |-> "ValueError"]
    ELSE [S |-> r.S, res |-> r.S._reduced_word[x], exc |-> ""]

\* "for x in self.parent(): if x is self: return self._reduced_word", and the
\* ValueError after the loop; r is what the pull of the iterator returned
RECURSIVE Search(_, _, _)
Searched(r, x) ==
    IF r.ev = "stop" THEN [S |-> r.S, res |-> None, exc |-> "ValueError"]
    ELSE IF r.y = x THEN [S |-> r.S, res |-> r.S._reduced_word[x], exc |-> ""]
    ELSE Search(r.S, r.c, x)

Search(S, c, x) == Searched(next(S, c), x)

\* reduced_word computing the word whether or not computation is asked for
reduced_wordForced(S, x, computation) ==
    IF S._reduced_word[x] # None
    THEN [S |-> S, res |-> S._reduced_word[x], exc |-> ""]
    ELSE Search(S, NewIt, x)

\* Element.reduced_word
reduced_word(S, x, computation) ==
    IF S._reduced_word[x] # None \/ ~computation
    THEN [S |-> S, res |-> S._reduced_word[x], exc |-> ""]
    ELSE Search(S, NewIt, x)

\* AutomaticMonoid.__contains__: r is what x.reduced_word(computation=True) did
Caught(r) == [S |-> r.S, res |-> r.exc # "ValueError", exc |-> ""]

contains(S, x) == Caught(reduced_word(S, x, TRUE))

\* AutomaticMonoid.lift: "assert(x in self)" (inx) and then x.lift()
Lifted(inx, x) ==
    [S |-> inx.S, res |-> lift(x), exc |-> IF inx.res THEN "" ELSE "AssertionError"]

parent_lift(S, x) == Lifted(contains(S, x), x)

\* AutomaticMonoid.compute_until
Discard(r) == [S |-> r.S, res |-> None, exc |-> ""]

compute_until(S, elt) == Discard(contains(S, elt))

\* AutomaticMonoid.product: "assert(x in self)" (inx), "assert(y in self)"
\* (iny), and then the word of y replayed from x, or the product retracted
Result(r) == [S |-> r.S, res |-> r.e, exc |-> ""]

\* ProductRed replaying the word of y from the identity, not from x
ProductRedFromOne(iny, x, y) ==
    IF ~iny.res THEN [S |-> iny.S, res |-> y, exc |-> "AssertionError"]
    ELSE Result(Replay(iny.S, _one, iny.S._reduced_word[y]))

\* ProductRed without "assert(y in self)"
ProductRedUnchecked(iny, x, y) ==
    IF iny.S._reduced_word[y] = None
    THEN Result(retract(iny.S, mul(lift(x), lift(y))))
    ELSE Result(Replay(iny.S, x, iny.S._reduced_word[y]))

ProductRed(iny, x, y) ==
    IF ~iny.res THEN [S |-> iny.S, res |-> y, exc |-> "AssertionError"]
    ELSE IF iny.S._reduced_word[y] = None
    THEN Result(retract(iny.S, mul(lift(x), lift(y))))
    ELSE Result(Replay(iny.S, x, iny.S._reduced_word[y]))

ProductY(inx, x, y) ==
    IF ~inx.res THEN [S |-> inx.S, res |-> x, exc |-> "AssertionError"]
    ELSE ProductRed(contains(inx.S, y), x, y)

product(S, x, y) == ProductY(contains(S, x), x, y)

\* "for x in range(n): it.next()" with the iterator c; ValueError is caught,
\* StopIteration is not
RECURSIVE NextTimes(_, _, _)
Pulled(r, n) ==
    IF r.ev = "stop" THEN [S |-> r.S, res |-> None, exc |-> "StopIteration"]
    ELSE NextTimes(r.S, r.c, n - 1)

NextTimes(S, c, n) ==
    IF n = 0 THEN [S |-> S, res |-> None, exc |-> ""]
    ELSE Pulled(next(S, c), n)

\* compute_n_elements pulling its iterator once more than n times
compute_n_elementsMore(S, n) == NextTimes(S, NewIt, n + 1)

\* AutomaticMonoid.compute_n_elements
compute_n_elements(S, n) == NextTimes(S, NewIt, n)

\* _cardinality_from_iterator: the elements "for x in self" yields, counted
RECURSIVE Count(_, _, _)
Counted(r, n) ==
    IF r.ev = "stop" THEN [S |-> r.S, res |-> n, exc |-> ""]
    ELSE Count(r.S, r.c, n + 1)

Count(S, c, n) == Counted(next(S, c), n)

\* AutomaticMonoid.cardinality
cardinality(S) ==
    IF S.done = Len(S.elements) THEN [S |-> S, res |-> S.done, exc |-> ""]
    ELSE Count(S, NewIt, 0)

(***************************************************************************)
(* The actions: the calls of a caller, one at a time.  The caller's own    *)
(* iterators stay suspended at their yield during the other calls.  nested *)
(* says whether the caller lets a call pull an iterator while another      *)
(* iterator is suspended in the middle of its code.  ret holds what the    *)
(* last call returned until the caller drops it, before its next call, or  *)
(* pulls an iterator.                                                      *)
(***************************************************************************)
NoRet ==
    [op |-> "none", a |-> _one, b |-> _one, l |-> <<>>, n |-> 0, res |-> _one, exc |-> ""]

\* the caller has dropped the result of its last call
Ready == ret.op = "none"

Drop ==
    /\ ~Ready
    /\ ret' = NoRet
    /\ UNCHANGED <<static_vars, store_vars, its>>

Returned(op, a, b, l, n, res, exc) ==
    [op |-> op, a |-> a, b |-> b, l |-> l, n |-> n, res |-> res, exc |-> exc]

\* no iterator but c is suspended in the middle of its code
Alone(c) == \A d \in DOMAIN its : d # c => its[d].pc \notin Live

Objects == DOMAIN _reduced_word

Words == UNION {[1..m -> keys] : m \in 0..MaxWordLen}

\* the elements made that are not in the discovery list are at most MaxUnlisted
WithinBounds(S) ==
    Cardinality(DOMAIN S._reduced_word \ S.elements_set) <= MaxUnlisted

\* the call op(a, b, l, n) has left the store r.S and returned
ReturnElement(r, op, a, b, l, n) ==
    /\ WithinBounds(r.S)
    /\ SetStore(r.S)
    /\ ret' = Returned(op, a, b, l, n, r.e, "")

ReturnResult(r, op, a, b, l, n) ==
    /\ WithinBounds(r.S)
    /\ SetStore(r.S)
    /\ ret' = Returned(op, a, b, l, n, r.res, r.exc)

\* M.retract(v)
Retract(v) ==
    /\ Ready
    /\ ReturnElement(retract(Store, v), "retract", _one, _one, <<>>, 0)
    /\ UNCHANGED <<static_vars, its>>

\* x.transition(i)
Transition(x, i) ==
    /\ Ready
    /\ ReturnElement(transition(Store, x, i), "transition", x, x, <<>>, i)
    /\ UNCHANGED <<static_vars, its>>

\* M.from_reduced_word(l)
FromReducedWord(l) ==
    /\ Ready
    /\ ReturnElement(from_reduced_word(Store, l), "from_reduced_word", _one, _one, l, 0)
    /\ UNCHANGED <<static_vars, its>>

\* it = M.__iter__()
Iter(c, nested) ==
    /\ Ready
    /\ its[c].pc = "none"
    /\ nested \/ Alone(c)
    /\ its' = [its EXCEPT ![c] = NewIt]
    /\ UNCHANGED <<static_vars, store_vars, ret>>

\* the caller drops the iterator c
Close(c) ==
    /\ Ready
    /\ its[c].pc # "none"
    /\ its' = [its EXCEPT ![c] = NoIt]
    /\ UNCHANGED <<static_vars, store_vars, ret>>

\* PullReturn forgetting where the code of the iterator has got to
PullReturnRewound(r, c) ==
    /\ SetStore(r.S)
    /\ its' = its
    /\ ret' = Returned("next", _one, _one, <<>>, c, r.y,
                       IF r.ev = "yield" THEN "" ELSE "StopIteration")

\* it.next(): r is what the code of the iterator did
PullReturn(r, c) ==
    /\ SetStore(r.S)
    /\ its' = [its EXCEPT ![c] =
                  [r.c EXCEPT !.out = IF r.ev = "yield" THEN Append(@, r.y) ELSE @]]
    /\ ret' = Returned("next", _one, _one, <<>>, c, r.y,
                       IF r.ev = "yield" THEN "" ELSE "StopIteration")

Pull(c, nested) ==
    /\ its[c].pc # "none"
    /\ nested \/ Alone(c)
    /\ PullReturn(next(Store, its[c]), c)
    /\ UNCHANGED static_vars

\* x.reduced_word(computation=True)
ReducedWord(x, nested) ==
    /\ Ready
    /\ nested \/ Alone(0)
    /\ ReturnResult(reduced_word(Store, x, TRUE), "reduced_word", x, x, <<>>, 0)
    /\ UNCHANGED <<static_vars, its>>

\* x.reduced_word()
ReducedWordUnforced(x) ==
    /\ Ready
    /\ ReturnResult(reduced_word(Store, x, FALSE), "reduced_word_unforced", x, x, <<>>, 0)
    /\ UNCHANGED <<static_vars, its>>

\* x.lift()
ElementLift(x) ==
    /\ Ready
    /\ ret' = Returned("lift", x, x, <<>>, 0, lift(x), "")
    /\ UNCHANGED <<static_vars, store_vars, its>>

\* M.lift(x)
ParentLift(x, nested) ==
    /\ Ready
    /\ nested \/ Alone(0)
    /\ ReturnResult(parent_lift(Store, x), "parent_lift", x, x, <<>>, 0)
    /\ UNCHANGED <<static_vars, its>>

\* x in M
Contains(x, nested) ==
    /\ Ready
    /\ nested \/ Alone(0)
    /\ ReturnResult(contains(Store, x), "contains", x, x, <<>>, 0)
    /\ UNCHANGED <<static_vars, its>>

\* M.compute_until(x)
ComputeUntil(x, nested) ==
    /\ Ready
    /\ nested \/ Alone(0)
    /\ ReturnResult(compute_until(Store, x), "compute_until", x, x, <<>>, 0)
    /\ UNCHANGED <<static_vars, its>>

\* M.product(x, y)
Product(x, y, nested) ==
    /\ Ready
    /\ nested \/ Alone(0)
    /\ ReturnResult(product(Store, x, y), "product", x, y, <<>>, 0)
    /\ UNCHANGED <<static_vars, its>>

\* M.cardinality()
CardinalityCall(nested) ==
    /\ Ready
    /\ nested \/ Alone(0)
    /\ ReturnResult(cardinality(Store), "cardinality", _one, _one, <<>>, 0)
    /\ UNCHANGED <<static_vars, its>>

\* M.compute_n_elements(n)
ComputeNElements(n, nested) ==
    /\ Ready
    /\ nested \/ Alone(0)
    /\ ReturnResult(compute_n_elements(Store, n), "compute_n_elements", _one, _one, <<>>, n)
    /\ UNCHANGED <<static_vars, its>>

\* Any caller.
Next ==
    \/ \E v \in RetractChoices(ambient) : Retract(v)
    \/ \E x \in Objects, i \in keys : Transition(x, i)
    \/ \E l \in Words : FromReducedWord(l)
    \/ \E c \in DOMAIN its : Iter(c, TRUE)
    \/ \E c \in DOMAIN its : Close(c)
    \/ \E c \in DOMAIN its : Pull(c, TRUE)
    \/ \E x \in Objects : ReducedWord(x, TRUE)
    \/ \E x \in Objects : ReducedWordUnforced(x)
    \/ \E x \in Objects : ElementLift(x)
    \/ \E x \in Objects : ParentLift(x, TRUE)
    \/ \E x \in Objects : Contains(x, TRUE)
    \/ \E x \in Objects : ComputeUntil(x, TRUE)
    \/ \E x \in Objects, y \in Objects : Product(x, y, TRUE)
    \/ \E n \in 0..MaxN : ComputeNElements(n, TRUE)
    \/ CardinalityCall(TRUE)
    \/ Drop

Spec == Init /\ [][Next]_vars

\* A caller that has one iterator under way at a time: it pulls no iterator
\* while another one is suspended in the middle of its code.
NextSingle ==
    \/ \E v \in RetractChoices(ambient) : Retract(v)
    \/ \E x \in Objects, i \in keys : Transition(x, i)
    \/ \E l \in Words : FromReducedWord(l)
    \/ \E c \in DOMAIN its : Iter(c, FALSE)
    \/ \E c \in DOMAIN its : Close(c)
    \/ \E c \in DOMAIN its : Pull(c, FALSE)
    \/ \E x \in Objects : ReducedWord(x, FALSE)
    \/ \E x \in Objects : ReducedWordUnforced(x)
    \/ \E x \in Objects : ElementLift(x)
    \/ \E x \in Objects : ParentLift(x, FALSE)
    \/ \E x \in Objects : Contains(x, FALSE)
    \/ \E x \in Objects : ComputeUntil(x, FALSE)
    \/ \E x \in Objects, y \in Objects : Product(x, y, FALSE)
    \/ \E n \in 0..MaxN : ComputeNElements(n, FALSE)
    \/ CardinalityCall(FALSE)
    \/ Drop

SpecSingle == Init /\ [][NextSingle]_vars

\* A caller that has one iterator under way at a time, never drops it, and
\* keeps pulling it.
NextPulled ==
    \/ \E v \in RetractChoices(ambient) : Retract(v)
    \/ \E x \in Objects, i \in keys : Transition(x, i)
    \/ \E l \in Words : FromReducedWord(l)
    \/ \E c \in DOMAIN its : Iter(c, FALSE)
    \/ \E c \in DOMAIN its : Pull(c, FALSE)
    \/ \E x \in Objects : ReducedWord(x, FALSE)
    \/ \E x \in Objects : ReducedWordUnforced(x)
    \/ \E x \in Objects : ElementLift(x)
    \/ \E x \in Objects : ParentLift(x, FALSE)
    \/ \E x \in Objects : Contains(x, FALSE)
    \/ \E x \in Objects : ComputeUntil(x, FALSE)
    \/ \E x \in Objects, y \in Objects : Product(x, y, FALSE)
    \/ \E n \in 0..MaxN : ComputeNElements(n, FALSE)
    \/ CardinalityCall(FALSE)
    \/ Drop

SpecPulled ==
    /\ Init
    /\ [][NextPulled]_vars
    /\ WF_vars(\E c \in DOMAIN its : Pull(c, FALSE))

\* A caller of the monoids of the scenario that enumerates: it has one
\* iterator under way at a time, keeps pulling it, and between the pulls
\* makes elements, forces reduced words, computes elements and asks for the
\* cardinality.
NextScenario ==
    \/ \E v \in RetractChoices(ambient) : Retract(v)
    \/ \E l \in Words : FromReducedWord(l)
    \/ \E c \in DOMAIN its : Iter(c, FALSE)
    \/ \E c \in DOMAIN its : Pull(c, FALSE)
    \/ \E x \in Objects : ReducedWord(x, FALSE)
    \/ \E x \in Objects : ComputeUntil(x, FALSE)
    \/ \E n \in 0..MaxN : ComputeNElements(n, FALSE)
    \/ CardinalityCall(FALSE)
    \/ Drop

SpecScenario ==
    /\ InitScenario
    /\ [][NextScenario]_vars
    /\ WF_vars(\E c \in DOMAIN its : Pull(c, FALSE))

\* A caller that iterates over the monoid and, between two pulls of its
\* iterator, makes elements and asks the queries that force a reduced word:
\* x.reduced_word(), x in M and M.product(x, y), each run by an iterator of
\* its own that is dropped when the element is found.
NextNested ==
    \/ \E v \in RetractChoices(ambient) : Retract(v)
    \/ \E l \in Words : FromReducedWord(l)
    \/ \E c \in DOMAIN its : Iter(c, TRUE)
    \/ \E c \in DOMAIN its : Pull(c, TRUE)
    \/ \E x \in Objects : ReducedWord(x, TRUE)
    \/ \E x \in Objects : Contains(x, TRUE)
    \/ \E x \in Objects, y \in Objects : Product(x, y, TRUE)
    \/ Drop

SpecNested == Init /\ [][NextNested]_vars

(***************************************************************************)
(* What the claims speak of.                                               *)
(***************************************************************************)
\* the product of v and the generators named in l, from left to right
RECURSIVE Fold(_, _)
Fold(v, l) ==
    IF l = <<>> THEN v
    ELSE Fold(mul(v, generators_in_ambient[Head(l)]), Tail(l))

\* the ambient value of the word l: its product folded from the identity
WordValue(l) == Fold(AmbientOne(ambient), l)

WordsOfLength(m) == [1..m -> keys]

\* u comes before w in the lexicographic order of the keys (same length)
LexLess(u, w) ==
    \E j \in 1..Len(u) : u[j] < w[j] /\ \A h \in 1..(j - 1) : u[h] = w[h]

HasWord(e) == _reduced_word[e] # None

\* the reduced word of e is a word of e of minimal length, and the least of
\* these in the lexicographic order
Canonical(e) ==
    /\ WordValue(_reduced_word[e]) = lift(e)
    /\ \A m \in 0..Len(_reduced_word[e]) : \A u \in WordsOfLength(m) :
          WordValue(u) = lift(e) =>
              m = Len(_reduced_word[e]) /\ ~LexLess(u, _reduced_word[e])

\* the ambient values of the generated monoid: the identity and all the
\* products of generators
RECURSIVE RightClosure(_)
RightClosure(V) ==
    IF \A v \in V, i \in keys : mul(v, generators_in_ambient[i]) \in V THEN V
    ELSE RightClosure(V \cup {mul(v, generators_in_ambient[i]) : v \in V, i \in keys})

Generated == RightClosure({AmbientOne(ambient)})

\* the elements of the discovery list
Listed == {elements[k] : k \in 1..Len(elements)}

\* the generators are distinct and none is the identity
Proper ==
    \A j \in keys :
        /\ generators_in_ambient[j] # AmbientOne(ambient)
        /\ \A h \in keys : generators_in_ambient[h] = generators_in_ambient[j] => h = j

\* C1: every element that has a reduced word has the canonical one: of
\* minimal length among the words of its ambient value, and the least of
\* these in the lexicographic order of the keys; for every family of
\* generators.
C1_Canonicality == \A e \in Objects : HasWord(e) => Canonical(e)

\* the ambient values of the elements of the discovery list
ListedValues == {lift(e) : e \in Listed}

\* the discovery list is closed under right multiplication by the generators
Closed ==
    \A e \in Listed : \A i \in keys :
        /\ transition(Store, e, i).e \in Listed
        /\ lift(transition(Store, e, i).e) = mul(lift(e), generators_in_ambient[i])

\* C2: an enumeration pass of a caller with one iterator under way at a time
\* stops exactly when the frontier pointer done is the length of the
\* discovery list: a pull that stops leaves done there, and an iterator
\* suspended at a yield of its second loop has done below it.  In every state
\* with done at the length of the list, the list is closed under right
\* multiplication by the generators (transition(e, i) is in the list and has
\* the value lift(e) * generator i) and the values of its elements are
\* exactly the products of generators.
C2_ClosureAtTermination ==
    /\ (ret.op = "next" /\ ret.exc = "StopIteration") => done = Len(elements)
    /\ \A c \in DOMAIN its :
          /\ its[c].pc = "stopped" => done = Len(elements)
          /\ its[c].pc = "for" => done < Len(elements)
    /\ done = Len(elements) => Closed /\ ListedValues = Generated

\* an enumeration pass has stopped on a list longer than the constructed one
C2_Witness ==
    /\ ret.op = "next" /\ ret.exc = "StopIteration"
    /\ its[ret.n].pc = "stopped"
    /\ done = Len(elements)
    /\ Len(elements) > Len(generators) + 2

\* C3: no two element objects of the store have the same ambient value, and
\* retract of the value of an element of the store returns that very
\* element, leaving the store as it is; a call of retract returns the element
\* of the store that has the value.
C3_Uniqueness ==
    /\ \A x \in Objects, y \in Objects : lift(x) = lift(y) => x = y
    /\ \A e \in Objects : retract(Store, lift(e)) = [S |-> Store, e |-> e]
    /\ ret.op \in {"retract", "transition", "from_reduced_word"} =>
          /\ ret.res \in Objects
          /\ retract(Store, lift(ret.res)).e = ret.res

\* retract has returned an element that enumeration had discovered before
C3_Witness ==
    /\ ret.op = "retract"
    /\ ret.res \in Listed
    /\ ret.res \notin {generators[k] : k \in keys} \cup {_one}

\* C4: for a caller with one iterator under way at a time, "x in M" returns
\* whether the value of x is a product of generators, and
\* x.reduced_word(computation=True) returns the word of x if it is and raises
\* ValueError if it is not; when ValueError is raised or False returned,
\* enumeration is exhausted: done is the length of the discovery list.
C4_Membership ==
    /\ ret.op = "contains" =>
          /\ ret.exc = ""
          /\ ret.res = (lift(ret.a) \in Generated)
          /\ ~ret.res => done = Len(elements) /\ ret.a \notin Listed
    /\ ret.op = "reduced_word" =>
          /\ ret.exc = IF lift(ret.a) \in Generated THEN "" ELSE "ValueError"
          /\ ret.exc = "" => ret.res # None /\ ret.res = _reduced_word[ret.a]
          /\ ret.exc = "ValueError" =>
                done = Len(elements) /\ ret.a \notin Listed

\* the forced reduced word of a retracted value outside the structure has
\* raised ValueError, the calls having discovered elements
C4_Witness ==
    /\ ret.op = "reduced_word"
    /\ ret.exc = "ValueError"
    /\ lift(ret.a) \in RetractChoices(ambient)
    /\ Len(elements) > Len(generators) + 1

\* the store as __init__ left it: the identity and the generators, with the
\* reduced words __init__ gave them, and nothing explored
Constructed ==
    [retract_cache |->
        [v \in {lift(_one)} \cup {lift(generators[k]) : k \in keys} |-> retract_cache[v]],
     _reduced_word |->
        [e \in {_one} \cup {generators[k] : k \in keys} |-> _reduced_word[e]],
     elements |-> <<_one>> \o generators,
     elements_set |-> {_one} \cup {generators[k] : k \in keys},
     done |-> 0]

\* the stores S and T have the same discovery list and the same reduced word
\* for every element of it
SameEnumeration(S, T) ==
    /\ S.elements = T.elements
    /\ \A k \in 1..Len(S.elements) :
          S._reduced_word[S.elements[k]] = T._reduced_word[T.elements[k]]

\* C5: in every state a caller with one iterator under way at a time can
\* reach with no iterator suspended in the middle of its code, so after
\* compute_n_elements(n), after compute_until, after an iterator was dropped
\* at any yield, a fresh full enumeration ends with the discovery list and
\* the reduced words of one uninterrupted full enumeration of the store as
\* it was constructed.
C5_Resumability ==
    Alone(0) =>
        SameEnumeration(Exhaust(Store, NewIt), Exhaust(Constructed, NewIt))

\* compute_n_elements has left the enumeration in the middle: elements are
\* discovered, others are not, and the frontier is inside the list
C5_Witness ==
    /\ ret.op = "compute_n_elements" /\ ret.n > 0 /\ ret.exc = ""
    /\ Alone(0)
    /\ 0 < done /\ done < Len(elements)
    /\ Len(generators) + 1 < Len(elements)
    /\ Len(elements) < Len(Exhaust(Constructed, NewIt).elements)

\* C6: for a caller with one iterator under way at a time, and x and y
\* elements of the store whose values are products of generators, whatever
\* part of the structure is enumerated, M.product(x, y) raises nothing and
\* returns the element of the store whose value is lift(x) * lift(y), the
\* very element retract returns for that value.
C6_ProductConsistency ==
    (ret.op = "product" /\ lift(ret.a) \in Generated /\ lift(ret.b) \in Generated) =>
        /\ ret.exc = ""
        /\ ret.res \in Objects
        /\ lift(ret.res) = mul(lift(ret.a), lift(ret.b))
        /\ retract(Store, mul(lift(ret.a), lift(ret.b))) = [S |-> Store, e |-> ret.res]

\* product has returned for an element y whose word it had to compute, the
\* product being neither of x and y, and the enumeration not exhausted
C6_Witness ==
    /\ ret.op = "product" /\ ret.exc = ""
    /\ ret.res \notin {ret.a, ret.b}
    /\ ret.b \notin {generators[k] : k \in keys} \cup {_one}
    /\ ret.a # _one
    /\ done < Len(elements)

\* C7: the generated structure being finite, an iterator that keeps being
\* pulled eventually stops, and when it has stopped the frontier pointer
\* done is the length of the discovery list.
C7_Termination ==
    \A c \in 1..MaxCursors :
        (its[c].pc \in Live) ~> (its[c].pc = "stopped" /\ done = Len(elements))

\* an iterator has been pulled until it stopped, having discovered elements
C7_Witness ==
    /\ its[1].pc = "stopped"
    /\ done = Len(elements)
    /\ Len(elements) > Len(generators) + 2
    /\ ret.op = "next" /\ ret.exc = "StopIteration"

\* C8: for every element e that has a reduced word, from_reduced_word of the
\* word returns e itself; for keys i and j, from_reduced_word([i, j]) and
\* then product(generators[i], generators[j]) return the same element, the
\* product raising nothing; and from_reduced_word(l) returns the element of
\* the store whose value is the product, from left to right, of the
\* generators l names.
C8_WordReplay ==
    /\ \A e \in Objects :
          HasWord(e) => from_reduced_word(Store, _reduced_word[e]).e = e
    /\ \A i \in keys, j \in keys :
          product(from_reduced_word(Store, <<i, j>>).S, generators[i], generators[j])
              = [S |-> from_reduced_word(Store, <<i, j>>).S,
                 res |-> from_reduced_word(Store, <<i, j>>).e, exc |-> ""]
    /\ ret.op = "from_reduced_word" =>
          /\ lift(ret.res) = WordValue(ret.l)
          /\ ret.res \in Objects
          /\ retract(Store, WordValue(ret.l)).e = ret.res

\* from_reduced_word has returned, for a word of two letters whose value
\* depends on their order, an element that enumeration has given this word
C8_Witness ==
    /\ ret.op = "from_reduced_word"
    /\ Len(ret.l) = 2
    /\ WordValue(ret.l) # WordValue(<<ret.l[2], ret.l[1]>>)
    /\ _reduced_word[ret.res] = ret.l

\* the store is as __init__ left it and the caller has done nothing yet
Fresh ==
    /\ Store = Constructed
    /\ \A c \in DOMAIN its : its[c].pc = "none"
    /\ ret.op = "none"

\* C9: immediately after construction, for every family of generators, the
\* identity has the empty reduced word, the element of every generator has
\* the reduced word made of its own key, the discovery list is the identity
\* followed by the generators in the order of the family, and done is 0.
C9_ConstructionState ==
    Fresh =>
        /\ _reduced_word[_one] = <<>>
        /\ \A k \in keys : _reduced_word[generators[k]] = <<k>>
        /\ elements = <<_one>> \o generators
        /\ done = 0

\* C10 as stated: retract of a value that is not in the cache of retract
\* appends the new element to the discovery list.
C10_RetractAppends ==
    [][\A v \in RetractChoices(ambient) :
          (Retract(v) /\ v \notin DOMAIN retract_cache) =>
              /\ elements' = Append(elements, retract_cache'[v])
              /\ retract_cache'[v] \in elements_set']_vars

\* C10, amended: retract of a value that is not in the cache of retract makes
\* a new element with reduced word None and puts it in the cache only: the
\* discovery list, its set and done stay as they are, so that the element is
\* not in the list; and the list never holds an element whose value is not a
\* product of generators, so enumeration yields a retracted element only if
\* its value is in the generated structure.
C10_RetractCachesOnly ==
    /\ [][\A v \in RetractChoices(ambient) :
            (Retract(v) /\ v \notin DOMAIN retract_cache) =>
                /\ retract_cache' = retract_cache @@ (v :> ret'.res)
                /\ ret'.res \notin Objects
                /\ _reduced_word' = _reduced_word @@ (ret'.res :> None)
                /\ elements' = elements
                /\ elements_set' = elements_set
                /\ done' = done
                /\ ret'.res \notin elements_set']_vars
    /\ [](ListedValues \subseteq Generated)

\* retract has made an element for a value outside the generated structure
\* after the enumeration was exhausted: it has no word and is not listed
C10_Witness ==
    /\ ret.op = "retract"
    /\ _reduced_word[ret.res] = None
    /\ lift(ret.res) \notin Generated
    /\ ret.res \notin Listed
    /\ done = Len(elements)
    /\ Len(elements) > Len(generators) + 1

\* the step is the call op, made by a caller that had dropped its last result
CallOf(ops) == ret.op = "none" /\ ret'.op \in ops

\* the discovery list, its set, done and every reduced word stay as they are
ListUnchanged ==
    /\ elements' = elements
    /\ elements_set' = elements_set
    /\ done' = done
    /\ \A e \in Objects : _reduced_word'[e] = _reduced_word[e]

\* C11 as stated: M.lift(x), x.lift() and x.reduced_word() never fail, for
\* any element of the store, and leave the discovery list, its set, done and
\* every reduced word unchanged.
C11_ReadOnlyQueries ==
    [][CallOf({"lift", "parent_lift", "reduced_word_unforced"}) =>
          ret'.exc = "" /\ ListUnchanged]_vars

\* C11, amended: x.lift() and x.reduced_word() never fail, for any element
\* of the store, return the value and the word (None if undetermined), and
\* leave the whole store unchanged.  M.lift(x) asserts "x in M" first: for
\* an element that has its word it changes nothing and returns the value;
\* for an element without a word it enumerates, never changing a word that
\* is assigned, and either x gets its word and the value is returned, or
\* AssertionError is raised and x is not in the discovery list.
C11_ReadOnlyElementQueries ==
    [][/\ CallOf({"lift"}) =>
            ret'.exc = "" /\ ret'.res = lift(ret'.a) /\ UNCHANGED store_vars
       /\ CallOf({"reduced_word_unforced"}) =>
            /\ ret'.exc = "" /\ ret'.res = _reduced_word[ret'.a]
            /\ UNCHANGED store_vars
       /\ CallOf({"parent_lift"}) =>
            /\ HasWord(ret'.a) => ret'.exc = "" /\ UNCHANGED store_vars
            /\ \A e \in Objects : HasWord(e) => _reduced_word'[e] = _reduced_word[e]
            /\ ret'.exc = "" => ret'.res = lift(ret'.a) /\ _reduced_word'[ret'.a] # None
            /\ ret'.exc # "" =>
                  /\ ret'.exc = "AssertionError"
                  /\ _reduced_word'[ret'.a] = None
                  /\ \A k \in 1..Len(elements') : elements'[k] # ret'.a]_vars

\* x.reduced_word() has returned None for a retracted element, with part of
\* the structure enumerated
C11_Witness ==
    /\ ret.op = "reduced_word_unforced"
    /\ ret.res = None
    /\ lift(ret.a) \in RetractChoices(ambient)
    /\ 0 < done /\ done < Len(elements)

\* C12: no step of any caller, nested iterators included, changes a reduced
\* word that is assigned; the discovery list only grows at its end, and the
\* elements a step appends had no word before it.
C12_WordImmutability ==
    [][/\ \A e \in Objects : HasWord(e) => _reduced_word'[e] = _reduced_word[e]
       /\ Len(elements') >= Len(elements)
       /\ SubSeq(elements', 1, Len(elements)) = elements
       /\ \A k \in (Len(elements) + 1)..Len(elements') :
             elements'[k] \notin Objects \/ _reduced_word[elements'[k]] = None]_vars

\* a pull has yielded a new element after the transitions of an explored
\* element had led to elements that have their words
C12_Witness ==
    /\ ret.op = "next" /\ ret.exc = ""
    /\ its[ret.n].pc = "for"
    /\ Len(elements) > Len(generators) + 1
    /\ \E k \in 1..Len(elements) : \E i \in keys :
          /\ k <= done
          /\ HasWord(transition(Store, elements[k], i).e)
          /\ transition(Store, elements[k], i).e # elements[Len(elements)]

\* C13: for every family of generators and from every state of partial
\* enumeration, M.cardinality() returns the number of ambient values of the
\* generated structure.
C13_Cardinality ==
    ret.op = "cardinality" =>
        ret.exc = "" /\ ret.res = Cardinality(Generated)

\* C14 as stated: M.product(x, y) for an element y whose reduced word is
\* undetermined returns the element of value lift(x) * lift(y) by the one
\* retract of the ambient product: it raises nothing, whether or not y is in
\* the structure, and enumerates nothing.
C14_ProductFallback ==
    [][(CallOf({"product"}) /\ _reduced_word[ret'.b] = None) =>
          /\ ret'.exc = ""
          /\ lift(ret'.res) = mul(lift(ret'.a), lift(ret'.b))
          /\ ListUnchanged]_vars

\* C14, amended: M.product(x, y) asserts "x in M" and "y in M", which force
\* the reduced words of x and y: it raises AssertionError exactly when the
\* value of x or of y is not in the generated structure; otherwise x and y
\* have their words when it returns, and it returns the element of value
\* lift(x) * lift(y) that replaying the word of y from x ends at.  When
\* "y in M" is true y has its word, so the retract of the ambient product,
\* the branch of "red is None", is never taken.
C14_ProductValidates ==
    /\ ret.op = "product" =>
          /\ ret.exc \in {"", "AssertionError"}
          /\ ret.exc = "" <=>
                (lift(ret.a) \in Generated /\ lift(ret.b) \in Generated)
          /\ ret.exc = "" =>
                /\ HasWord(ret.a) /\ HasWord(ret.b)
                /\ Replay(Store, ret.a, _reduced_word[ret.b]) =
                      [S |-> Store, e |-> ret.res]
                /\ lift(ret.res) = mul(lift(ret.a), lift(ret.b))
    /\ Alone(0) =>
          \A y \in Objects :
              contains(Store, y).res => contains(Store, y).S._reduced_word[y] # None

\* product has raised AssertionError for a retracted y without a word whose
\* value is not in the structure, x being in it
C14_Witness ==
    /\ ret.op = "product"
    /\ ret.exc = "AssertionError"
    /\ _reduced_word[ret.b] = None
    /\ lift(ret.b) \notin Generated
    /\ lift(ret.a) \in Generated

\* C15: M.compute_n_elements(n) with n bigger than the number of values of
\* the generated structure raises nothing and leaves all the elements
\* computed: done is the length of the discovery list.  Stated for the
\* families of distinct generators none of which is the identity, whose
\* discovery list holds every value once.
C15_ComputeAllElements ==
    (Proper /\ ret.op = "compute_n_elements" /\ ret.n > Cardinality(Generated)) =>
        ret.exc = "" /\ done = Len(elements)

\* C16: for a caller with one iterator under way at a time,
\* M.compute_until(elt) raises nothing; if elt had its word nothing changes;
\* if elt had no word and its value is in the generated structure, elt has
\* its word on return and is the last element of the discovery list, which
\* it was not in before; if the value of elt is not in the structure, all
\* the elements are computed: done is the length of the list and the values
\* of the list are the generated structure.
C16_ComputeUntil ==
    [][CallOf({"compute_until"}) =>
          /\ ret'.exc = ""
          /\ HasWord(ret'.a) => UNCHANGED store_vars
          /\ (~HasWord(ret'.a) /\ lift(ret'.a) \in Generated) =>
                /\ _reduced_word'[ret'.a] # None
                /\ elements'[Len(elements')] = ret'.a
                /\ ret'.a \notin Listed
                /\ Len(elements') > Len(elements)
          /\ lift(ret'.a) \notin Generated =>
                /\ done' = Len(elements')
                /\ {lift(elements'[k]) : k \in 1..Len(elements')} = Generated
                /\ _reduced_word'[ret'.a] = None]_vars

\* compute_until has stopped at a retracted element it has discovered, with
\* elements of the structure still to discover
C16_Witness ==
    /\ ret.op = "compute_until"
    /\ lift(ret.a) \in RetractChoices(ambient)
    /\ elements[Len(elements)] = ret.a
    /\ done < Len(elements)
    /\ Len(elements) < Cardinality(Generated)

\* the values and the reduced words of the discovery list, in its order
ListValues == [k \in 1..Len(elements) |-> lift(elements[k])]
ListWords == [k \in 1..Len(elements) |-> _reduced_word[elements[k]]]

\* an iterator has run to its end
Enumerated == \E c \in DOMAIN its : its[c].pc = "stopped"

\* C17 as the specification states it: with generators {1: 3 mod 12,
\* 2: 5 mod 12}, identity 0 mod 12 and addition mod 12, when the enumeration
\* has terminated there are exactly 4 elements, of words [], [1], [2], [1,1]
\* and of values 0, 3, 5, 9.
C17_AdditiveScenario ==
    (ambient = "IntegerModRingAdd" /\ generators_in_ambient = ScenarioFamily
        /\ Enumerated) =>
        /\ Len(elements) = 4
        /\ ListWords = <<<<>>, <<1>>, <<2>>, <<1, 1>>>>
        /\ ListValues = <<0, 3, 5, 9>>

\* C17, amended: with generators {1: 3 mod 12, 2: 5 mod 12}, identity
\* 1 mod 12 and multiplication mod 12, an iterator that keeps being pulled
\* terminates, and when the enumeration has terminated there are exactly 4
\* elements, of words [], [1], [2], [1,1] and of values 1, 3, 5, 9; the list
\* never holds more.
C17_MultiplicativeScenario ==
    /\ [](ambient = "IntegerModRing" =>
            /\ Len(elements) <= 4
            /\ Enumerated =>
                  /\ Len(elements) = 4
                  /\ ListWords = <<<<>>, <<1>>, <<2>>, <<1, 1>>>>
                  /\ ListValues = <<1, 3, 5, 9>>)
    /\ \A c \in 1..MaxCursors :
          (ambient = "IntegerModRing" /\ its[c].pc \in Live) ~> (its[c].pc = "stopped")

\* the enumeration of the multiplicative monoid has run to its end
C17_Witness ==
    /\ ambient = "IntegerModRing" /\ generators_in_ambient = ScenarioFamily
    /\ Enumerated
    /\ Len(elements) = 4 /\ done = 4
    /\ ret.op = "next" /\ ret.exc = "StopIteration"

\* C18: in every reachable state, the states in which a suspended iterator
\* is resumed after another has advanced the frontier included, done is at
\* most the length of the discovery list, and every element of the list at a
\* position below done has all its transitions in the list.
C18_FrontierInvariant ==
    /\ done <= Len(elements)
    /\ \A k \in 1..done : \A i \in keys :
          k <= Len(elements) => transition(Store, elements[k], i).e \in Listed

\* C19: when an iteration over the monoid is interleaved at its yields with
\* forced queries (product, contains, reduced_word(computation=True)), then
\* once the iterator has stopped it has yielded every element of the
\* generated structure, each exactly once, the frontier pointer is the
\* length of the discovery list, the list is closed under the transitions
\* and every listed element has its canonical word.  Stated for the families
\* of distinct generators other than the identity; that the iterator does
\* stop is not part of the formula.
C19_NestedEnumeration ==
    \A c \in DOMAIN its :
        (Proper /\ its[c].pc = "stopped") =>
            /\ {lift(its[c].out[k]) : k \in 1..Len(its[c].out)} = Generated
            /\ \A j, k \in 1..Len(its[c].out) :
                  lift(its[c].out[j]) = lift(its[c].out[k]) => j = k
            /\ done = Len(elements)
            /\ Closed
            /\ \A e \in Listed : HasWord(e) /\ Canonical(e)

\* the length-lexicographic order of words: the shorter first, and the words
\* of one length in the lexicographic order of the keys
LengthLexLess(u, v) == Len(u) < Len(v) \/ (Len(u) = Len(v) /\ LexLess(u, v))

\* C20: in every reachable state the discovery list is in strictly
\* increasing length-lexicographic order of the reduced words of its
\* elements, and starts with the identity, whose word is empty.
C20_DiscoveryOrder ==
    /\ _reduced_word[elements[1]] = <<>>
    /\ lift(elements[1]) = AmbientOne(ambient)
    /\ \A k \in 1..(Len(elements) - 1) :
          /\ HasWord(elements[k]) /\ HasWord(elements[k + 1])
          /\ LengthLexLess(_reduced_word[elements[k]], _reduced_word[elements[k + 1]])

\* the larger of two numbers
Max(a, b) == IF a >= b THEN a ELSE b

\* C21: for a caller with one iterator under way at a time, when the
\* generated structure has at least n elements, M.compute_n_elements(n)
\* raises nothing and leaves exactly max(k, n) elements in the discovery
\* list, k being its length before the call: the k elements it held, in
\* their places, followed when n > k by n - k elements that were not in it.
C21_BoundedCount ==
    [][(CallOf({"compute_n_elements"}) /\ Cardinality(Generated) >= ret'.n) =>
          /\ ret'.exc = ""
          /\ Len(elements') = Max(Len(elements), ret'.n)
          /\ SubSeq(elements', 1, Len(elements)) = elements
          /\ \A k \in (Len(elements) + 1)..Len(elements') :
                elements'[k] \notin Listed]_vars

\* compute_n_elements(n) has returned with a list of n elements, more than
\* the construction put there, the last of them discovered from the element
\* at the frontier pointer, which is not yet explored to its end
C21_Witness ==
    /\ ret.op = "compute_n_elements" /\ ret.exc = ""
    /\ ret.n > Len(generators) + 1
    /\ Cardinality(Generated) >= ret.n
    /\ Len(elements) = ret.n
    /\ done < Len(elements)
    /\ \E i \in keys :
          lift(elements[ret.n]) = mul(lift(elements[done + 1]), generators_in_ambient[i])

\* C22: M.from_reduced_word(l), for every list l of keys of the generators,
\* raises nothing and leaves the discovery list, its set, done and the
\* reduced word of every element unchanged; the elements it makes have no
\* reduced word, and the element it returns, of value the product of the
\* generators l names, has the word it had before the call: l is not saved,
\* and an element the enumeration had not reached keeps None.
C22_FromReducedWordFrame ==
    [][CallOf({"from_reduced_word"}) =>
          /\ ret'.exc = ""
          /\ ListUnchanged
          /\ \A e \in DOMAIN _reduced_word' \ Objects : _reduced_word'[e] = None
          /\ lift(ret'.res) = Fold(AmbientOne(ambient), ret'.l)
          /\ (ret'.res \notin Objects \/ ~HasWord(ret'.res)) =>
                _reduced_word'[ret'.res] = None]_vars

\* from_reduced_word(l) has returned, for a word l of two keys, an element
\* that is not in the discovery list and has no reduced word
C22_Witness ==
    /\ ret.op = "from_reduced_word" /\ Len(ret.l) = 2
    /\ ret.res \notin Listed
    /\ _reduced_word[ret.res] = None
    /\ lift(ret.res) = WordValue(ret.l)
    /\ done < Len(elements)

====
